---- MODULE Spec2Model ----
(***************************************************************************)
(* A model of grep.cpp: the literal substring search over a stream         *)
(* (searchstream / searchline) and over a memory-mapped file (searchFile / *)
(* match), with the -v (complement) and -r (recursive) options.            *)
(*                                                                         *)
(* Bytes are one-character strings.  Offsets are the 0-based offsets of   *)
(* the C++ code; sequences are 1-based, so byte number i of a sequence s   *)
(* is s[i + 1].                                                            *)
(***************************************************************************)
EXTENDS Integers, Sequences, FiniteSets, TLC

\* Bounds of the model: the longest input text and the longest pattern.
MaxLen == 3
MaxPat == 2

NL == "\n"
\* The bytes an input or a pattern is made of.
Byte == {"a", "b", NL}
\* What lies behind the last byte of the mapping: a zero byte of the last
\* page, a byte of a neighbouring mapping, or no mapping at all.
NUL == "NUL"
Unmapped == "UNMAPPED"
BeyondByte == Byte \cup {NUL, Unmapped}

\* The path fileMap hands to searchFile, and the separator written after it.
fname == <<"f">>
Colon == ":"

SeqsOfLen(S, n) == [1..n -> S]
SeqsUpTo(S, n) == UNION {SeqsOfLen(S, k) : k \in 0..n}

VARIABLES
    complement,   \* -v
    recursive,    \* -r
    pattern,      \* the search pattern
    patternSize,  \* its cached length
    useStdin,     \* argc == argIndex: no file argument was given
    text,         \* the input: the bytes of stdin, or of the mapped file
    beyond,       \* the bytes behind the mapping, data[size], data[size+1], ...
    pc,           \* where the program is
    cin,          \* the part of stdin not yet read
    iter,         \* searchFile: the offset being examined
    startIndex,   \* searchFile: the offset the current line starts at
    matchFound,   \* searchFile: whether the current line has matched
    out,          \* the bytes written to cout
    hiRead,       \* the highest offset of data read so far (-1: none)
    matchCmps     \* the byte comparisons of the latest call of match

vars == <<complement, recursive, pattern, patternSize, useStdin, text, beyond,
          pc, cin, iter, startIndex, matchFound, out, hiRead, matchCmps>>

config == <<complement, recursive, pattern, patternSize, useStdin, text, beyond>>

\* sb.st_size
size == Len(text)

\* data[i]: a byte of the file, or whatever lies behind it.
data(i) == IF i < size THEN text[i + 1] ELSE beyond[i - size + 1]

\* The offsets behind the mapping that a run can touch: data[size] by the line
\* loop, and up to patternSize - 1 bytes behind the last byte by match.
BeyondLen(p) == IF Len(p) > 1 THEN Len(p) - 1 ELSE 1

Max(a, b) == IF a > b THEN a ELSE b

----------------------------------------------------------------------------
\* result(a), with the complement flag as an argument.
resultWith(c, a) == IF c THEN (IF a # 0 THEN 0 ELSE 1) ELSE a

\* result as it would be if it forgot the complement flag.
resultIgnoresFlag(a) == a

result(a) == resultWith(complement, a)

\* The inner while of searchline: whether the pattern is matched in full
\* from startPos on.
RECURSIVE searchlineWhile(_, _, _)
searchlineWhile(line, startPos, matchLen) ==
    IF startPos + matchLen < Len(line)
       /\ line[startPos + matchLen + 1] = pattern[matchLen + 1]
    THEN IF matchLen + 1 = patternSize
         THEN TRUE
         ELSE searchlineWhile(line, startPos, matchLen + 1)
    ELSE FALSE

\* The for loop of searchline, from startPos on.
RECURSIVE searchlineFor(_, _)
searchlineFor(line, startPos) ==
    IF startPos < Len(line)
    THEN IF searchlineWhile(line, startPos, 0)
         THEN result(startPos + 1)
         ELSE searchlineFor(line, startPos + 1)
    ELSE result(0)

searchline(line) == searchlineFor(line, 0)

\* std::getline(is, line): the bytes up to the next newline, which is
\* consumed and dropped; it fails only when nothing is left to read.
getline(is) ==
    LET nl == {i \in 1..Len(is) : is[i] = NL}
        k  == IF nl = {} THEN Len(is) + 1
              ELSE CHOOSE i \in nl : \A j \in nl : i <= j
    IN [ok   |-> is # <<>>,
        line |-> SubSeq(is, 1, k - 1),
        rest |-> SubSeq(is, k + 1, Len(is))]

\* match(data, startPos) under complement flag c: the value returned, the
\* number of bytes compared, the highest offset read, and whether a read
\* hit an unmapped page.
RECURSIVE matchWhile(_, _, _)
matchWhile(c, startPos, matchLen) ==
    LET b == data(startPos + matchLen)
        r == [fault |-> FALSE, ret |-> FALSE,
              cmps |-> matchLen + 1, hi |-> startPos + matchLen]
    IN IF b = Unmapped THEN [r EXCEPT !.fault = TRUE]
       ELSE IF b = pattern[matchLen + 1]
       THEN IF matchLen + 1 = patternSize
            THEN [r EXCEPT !.ret = resultWith(c, startPos + 1) # 0]
            ELSE matchWhile(c, startPos, matchLen + 1)
       ELSE [r EXCEPT !.ret = resultWith(c, 0) # 0]

matchWith(c, startPos) == matchWhile(c, startPos, 0)

match(startPos) == matchWith(complement, startPos)

\* linePrefix as it would be if the label did not depend on -r.
linePrefixAlways == fname \o <<Colon>>

\* What searchFile writes before the bytes of a line.
linePrefix == IF recursive THEN fname \o <<Colon>> ELSE <<>>

\* lineBytes as it would be if the write started one byte late.
lineBytesShifted(from, to) == [k \in 1..(to - from) |-> data(from + k)]

\* cout.write(data + startIndex, iter - startIndex)
lineBytes(from, to) == [k \in 1..(to - from) |-> data(from + k - 1)]

----------------------------------------------------------------------------
\* The state once main has parsed its arguments.
Init ==
    /\ complement \in BOOLEAN
    /\ recursive \in BOOLEAN
    /\ pattern \in SeqsUpTo(Byte, MaxPat) \ {<<>>}
    /\ patternSize = Len(pattern)
    /\ useStdin \in BOOLEAN
    /\ text \in SeqsUpTo(Byte, MaxLen)
    /\ beyond \in IF useStdin THEN {<<>>}
                  ELSE SeqsOfLen(BeyondByte, BeyondLen(pattern))
    /\ pc = "main"
    /\ cin = <<>>
    /\ iter = 0
    /\ startIndex = 0
    /\ matchFound = FALSE
    /\ out = <<>>
    /\ hiRead = -1
    /\ matchCmps = 0

\* main: stdin when no file is named, else the file.
main ==
    /\ pc = "main"
    /\ IF useStdin
       THEN pc' = "searchstream" /\ cin' = text
       ELSE pc' = "fileMap" /\ cin' = cin
    /\ UNCHANGED <<config, iter, startIndex, matchFound, out, hiRead, matchCmps>>

\* One turn of the loop of searchstream.
searchstream ==
    /\ pc = "searchstream"
    /\ LET g == getline(cin)
       IN IF g.ok
          THEN /\ cin' = g.rest
               /\ out' = IF searchline(g.line) # 0
                         THEN out \o g.line \o <<NL>>
                         ELSE out
               /\ pc' = pc
          ELSE /\ pc' = "done"
               /\ UNCHANGED <<cin, out>>
    /\ UNCHANGED <<config, iter, startIndex, matchFound, hiRead, matchCmps>>

\* fileMap: mmap refuses a mapping of length 0; otherwise searchFile starts.
fileMap ==
    /\ pc = "fileMap"
    /\ IF size = 0
       THEN pc' = "done" /\ iter' = iter
       ELSE pc' = "while" /\ iter' = 0
    /\ UNCHANGED <<config, cin, startIndex, matchFound, out, hiRead, matchCmps>>

\* searchFile: the test of the outer loop and the start of a line.
searchFileWhile ==
    /\ pc = "while"
    /\ IF iter < size
       THEN /\ startIndex' = iter
            /\ matchFound' = FALSE
            /\ pc' = "line"
       ELSE /\ pc' = "done"
            /\ UNCHANGED <<startIndex, matchFound>>
    /\ UNCHANGED <<config, cin, iter, out, hiRead, matchCmps>>

\* searchFile: one test of the inner loop and, when it passes, its body.
\* data[iter] is read before iter is compared with size.
searchFileLine ==
    /\ pc = "line"
    /\ LET b == data(iter)
           m == match(iter)
       IN IF b = Unmapped
          THEN /\ pc' = "fault"
               /\ hiRead' = Max(hiRead, iter)
               /\ UNCHANGED <<iter, matchFound, matchCmps>>
          ELSE IF b # NL /\ iter < size
          THEN IF matchFound
               THEN /\ iter' = iter + 1
                    /\ pc' = pc
                    /\ hiRead' = Max(hiRead, iter)
                    /\ UNCHANGED <<matchFound, matchCmps>>
               ELSE /\ hiRead' = Max(hiRead, m.hi)
                    /\ matchCmps' = m.cmps
                    /\ IF m.fault
                       THEN pc' = "fault" /\ UNCHANGED <<iter, matchFound>>
                       ELSE /\ matchFound' = m.ret
                            /\ iter' = iter + 1
                            /\ pc' = pc
          ELSE /\ pc' = "emit"
               /\ hiRead' = Max(hiRead, iter)
               /\ UNCHANGED <<iter, matchFound, matchCmps>>
    /\ UNCHANGED <<config, cin, startIndex, out>>

\* searchFileEmit as it would be if the line were written whether or not it
\* matched.
searchFileEmitUnguarded ==
    /\ pc = "emit"
    /\ out' = out \o linePrefix \o lineBytes(startIndex, iter) \o <<NL>>
    /\ iter' = iter + 1
    /\ pc' = "while"
    /\ UNCHANGED <<config, cin, startIndex, matchFound, hiRead, matchCmps>>

\* searchFile: the line is written when it matched, and the newline skipped.
searchFileEmit ==
    /\ pc = "emit"
    /\ out' = IF matchFound
              THEN out \o linePrefix \o lineBytes(startIndex, iter) \o <<NL>>
              ELSE out
    /\ iter' = iter + 1
    /\ pc' = "while"
    /\ UNCHANGED <<config, cin, startIndex, matchFound, hiRead, matchCmps>>

Next ==
    \/ main
    \/ searchstream
    \/ fileMap
    \/ searchFileWhile
    \/ searchFileLine
    \/ searchFileEmit

Spec == Init /\ [][Next]_vars

\* Every step that can be taken is taken: the program is one sequential thread.
FairSpec == Spec /\ WF_vars(Next)

----------------------------------------------------------------------------
\* The two loops as functions of their input, for statements that compare runs.

\* The inner loop of searchFile over the line that starts at offset i, under
\* complement flag c: the value of matchFound when the loop ends (FALSE when a
\* read faults, since nothing is written then).
RECURSIVE lineScan(_, _, _)
lineScan(c, i, found) ==
    LET b == data(i)
        m == matchWith(c, i)
    IN IF b = Unmapped THEN FALSE
       ELSE IF b # NL /\ i < size
       THEN IF found THEN lineScan(c, i + 1, TRUE)
            ELSE IF m.fault THEN FALSE
            ELSE lineScan(c, i + 1, m.ret)
       ELSE found

\* Everything searchstream writes for the input is.
RECURSIVE searchstreamAll(_)
searchstreamAll(is) ==
    LET g == getline(is)
    IN IF g.ok
       THEN (IF searchline(g.line) # 0 THEN g.line \o <<NL>> ELSE <<>>)
            \o searchstreamAll(g.rest)
       ELSE <<>>

----------------------------------------------------------------------------
\* The vocabulary of the properties.

\* P occurs in L as a contiguous subsequence.
Occurs(P, L) ==
    \E i \in 1..(Len(L) - Len(P) + 1) : SubSeq(L, i, i + Len(P) - 1) = P

\* The lines of s: each ends at the next newline or at the end of s, and a
\* final newline starts no further line.
RECURSIVE LinesOf(_)
LinesOf(s) ==
    IF s = <<>> THEN <<>>
    ELSE LET nl == {i \in 1..Len(s) : s[i] = NL}
             k  == IF nl = {} THEN Len(s) + 1
                   ELSE CHOOSE i \in nl : \A j \in nl : i <= j
         IN <<SubSeq(s, 1, k - 1)>> \o LinesOf(SubSeq(s, k + 1, Len(s)))

\* The lines ls, each followed by one newline.
RECURSIVE Render(_)
Render(ls) == IF ls = <<>> THEN <<>> ELSE Head(ls) \o <<NL>> \o Render(Tail(ls))

\* a can be had from b by dropping elements.
RECURSIVE IsSubseq(_, _)
IsSubseq(a, b) ==
    IF a = <<>> THEN TRUE
    ELSE IF b = <<>> THEN FALSE
    ELSE IF Head(a) = Head(b) THEN IsSubseq(Tail(a), Tail(b))
    ELSE IsSubseq(a, Tail(b))

HasPrefix(r, p) == Len(r) >= Len(p) /\ SubSeq(r, 1, Len(p)) = p

\* The records written so far: out cut at its newlines.
Records == LinesOf(out)

\* The label that -r puts before a line of a file.
Tag == fname \o <<Colon>>
Tagging == ~useStdin /\ recursive

\* A record without its label.
Untag(r) == IF Tagging /\ HasPrefix(r, Tag) THEN SubSeq(r, Len(Tag) + 1, Len(r)) ELSE r
UntaggedRecords == [k \in 1..Len(Records) |-> Untag(Records[k])]

\* The line-level verdict of the specification: the line contains the
\* pattern, flipped by -v.
Qualifies(L) == Occurs(pattern, L) # complement

Halted == pc \in {"done", "fault"}

\* The part of stdin that searchstream has read.
Consumed == SubSeq(text, 1, Len(text) - Len(cin))

----------------------------------------------------------------------------
\* C1: in buffer mode without -v, when searchFile has delimited a line, the
\* line has matched if and only if the pattern occurs within the bytes of
\* that line, whatever the other lines and the bytes behind the buffer hold.
C1_LineMatchesIffPatternInLine ==
    (~useStdin /\ ~complement /\ pc = "emit")
        => (matchFound <=> Occurs(pattern, lineBytes(startIndex, iter)))

C3_InvertFlipsLineVerdict ==
    (~useStdin /\ complement /\ pc = "emit")
        => (matchFound <=> ~lineScan(FALSE, startIndex, FALSE))

\* C4: searchFile without a label writes for a buffer exactly what
\* searchstream writes for the same bytes.
C4_BufferEqualsStream ==
    (~useStdin /\ ~recursive /\ pc = "done") => out = searchstreamAll(text)

\* C5: every offset of data that searchFile and match read lies in [0, size).
C5_ReadsWithinBuffer ==
    ~useStdin => hiRead < size

\* C6: when the scan of a buffer that does not end in a newline is over and
\* the bytes after the last newline qualify, the last thing written is those
\* bytes (after the label under -r) and one newline; and a buffer that ends in
\* a newline yields no record beyond its newline-terminated lines.
C6_EndOfBufferTerminatesLine ==
    (~useStdin /\ Halted /\ size > 0)
        => LET ls   == LinesOf(text)
               last == ls[Len(ls)]
               rec  == linePrefix \o last \o <<NL>>
           IN IF text[size] # NL
              THEN Qualifies(last)
                     => /\ Len(out) >= Len(rec)
                        /\ SubSeq(out, Len(out) - Len(rec) + 1, Len(out)) = rec
              ELSE Len(Records) <= Cardinality({i \in 1..size : text[i] = NL})

\* Whether an empty line has been written (a record that is only a label
\* counts as one).
EmptyLineWritten == \E k \in 1..Len(Records) : UntaggedRecords[k] = <<>>

C8_LabelExactlyWhenRecursive ==
    \A k \in 1..Len(Records) :
        LET r  == Records[k]
            ls == LinesOf(text)
        IN IF ~useStdin /\ recursive
           THEN /\ HasPrefix(r, Tag)
                /\ \E j \in 1..Len(ls) : ls[j] = SubSeq(r, Len(Tag) + 1, Len(r))
           ELSE \E j \in 1..Len(ls) : ls[j] = r

\* C8 witness: a file scanned to its end under -r with a labelled line
\* written.
C8_Witness ==
    /\ ~useStdin /\ recursive /\ pc = "done"
    /\ Records # <<>>
    /\ HasPrefix(Records[1], Tag)
    /\ Len(Records[1]) > Len(Tag)

\* The output of searchFile ends in a newline whenever it is not empty.
NewlineTerminated == out = <<>> \/ out[Len(out)] = NL

\* C9 as stated: under every flag setting the records written by searchFile
\* are, in order, lines of the buffer, each written verbatim and once, each
\* followed by one newline.
C9_RecordsAreLinesOfBuffer ==
    ~useStdin => NewlineTerminated /\ IsSubseq(Records, LinesOf(text))

\* C9 as amended: the records written by searchFile, each without the label
\* and colon that -r puts before it, are, in order, lines of the buffer, each
\* written verbatim and once, each followed by one newline.
C9_UntaggedRecordsAreLinesOfBuffer ==
    ~useStdin => NewlineTerminated /\ IsSubseq(UntaggedRecords, LinesOf(text))

\* C9 witness: a scan that is over, having written some lines of the buffer
\* and skipped others.
C9_Witness ==
    /\ ~useStdin /\ pc = "done"
    /\ Records # <<>>
    /\ Len(Records) < Len(LinesOf(text))

\* C10: the scan of a buffer stops only when it has run to completion, and
\* no call of match compares more than patternSize bytes.
C10_ScanRunsToCompletion ==
    ~useStdin => /\ (pc = "done" \/ ENABLED Next)
                 /\ matchCmps <= patternSize

\* Under FairSpec every scan stops, at its end or at a faulting read.
EventuallyHalts == <>Halted

\* The progress behind C10: every pass through either loop of searchFile
\* moves iter forward, and iter never moves back.
IterAdvances ==
    [][/\ iter' >= iter
       /\ (pc = "emit" => iter' > iter)
       /\ (pc = "line" /\ pc' = "line" => iter' > iter)]_vars

====
